---- MODULE Spec2Model ----
(***************************************************************************)
(* Model of the research-assistant core (src/research_assistant.py):       *)
(* question -> keywords -> PubMed id lookup -> detail fetch -> XML parsing  *)
(* -> relevance ranking -> top-K truncation.                                *)
(*                                                                          *)
(* Text that the code only stores or concatenates is a TLA+ string; text    *)
(* that the code strips (the translator's completion) is a sequence of      *)
(* one-character strings.  Python's None is the value None below; an XML    *)
(* node that find() does not find is NoNode.                                *)
(***************************************************************************)
EXTENDS Integers, Sequences, FiniteSets, TLC

VARIABLES
    pc,             \* position of the run inside process_research_question
    question,       \* argument of process_research_question
    max_papers,     \* argument of process_research_question
    translation,    \* the translator completion's outcome received in this run
    keywords,       \* local of process_research_question (line 49)
    paper_ids,      \* local of _search_pubmed (line 106)
    fetched,        \* the Literature Client's output as it was returned (line 53)
    papers,         \* the list object `papers`, mutated in place by the ranker
    response,       \* the ranking completion's outcome received in this run
    ranked_papers,  \* value returned by _rank_papers_by_relevance
    rank_failed,    \* the ranker's except branch (line 289) was taken
    result,         \* value returned by process_research_question
    calls,          \* external calls issued so far, in order
    writes,         \* per paper, how often lines 282 and 283 assigned its fields
    article_elem,   \* argument of _parse_article_xml
    paper,          \* value returned by _parse_article_xml
    loop,           \* request whose handler runs on the event loop thread (0: idle)
    req,            \* per /search request, the position of its handler
    limits,         \* per request, the UserLimits its dependency returned
    usage,          \* searches_count of the user's user_usage row for today
    tier,           \* tier of the user's user_subscriptions row
    allowed,        \* requests that reached process_research_question today
    rate_limit_store, \* api.rate_limit_store: per client address, the timestamps
    now,            \* what time.time() returns
    accepted        \* per client address, every timestamp the limiter accepted

vars == <<pc, question, max_papers, translation, keywords, paper_ids, fetched, papers,
          response, ranked_papers, rank_failed, result, calls, writes,
          article_elem, paper, loop, req, limits, usage, tier, allowed,
          rate_limit_store, now, accepted>>

pipelineVars == <<question, max_papers, translation, keywords, paper_ids, fetched, papers,
                  response, ranked_papers, rank_failed, result, calls, writes>>

parseVars == <<article_elem, paper>>

serverVars == <<loop, req, limits, usage, tier, allowed, rate_limit_store, now,
                accepted>>

\* the service is not running: the specifications of the core alone
ServerIdle ==
    /\ loop = 0 /\ req = <<>> /\ limits = <<>>
    /\ usage = 0 /\ tier = "free" /\ allowed = 0
    /\ rate_limit_store = <<>> /\ now = 0 /\ accepted = <<>>

----------------------------------------------------------------------------
(* Bounds of the model *)

MaxAuthors == 6       \* Author nodes in one article element
MaxPapers == 4        \* papers handed to the ranker in the ranking specification
MaxRankings == 2      \* ranking objects in one completion response
MaxPapersArg == 2     \* largest max_papers argument
MaxIds == 2           \* Id elements in one esearch response
MaxArticles == 3      \* PubmedArticle nodes in one efetch response

----------------------------------------------------------------------------
(* Python values *)

None == "<None>"          \* Python None (ElementTree .text of a node without text)
NoNode == "<no node>"     \* find() returned None: the node is not in the document
Unset == "<unset>"        \* a local that has not been assigned yet

\* str(x) as an f-string formats it
Str(x) == IF x = None THEN "None" ELSE x

RECURSIVE Join(_, _)
\* sep.join(texts)
Join(sep, texts) ==
    IF texts = <<>> THEN ""
    ELSE IF Len(texts) = 1 THEN texts[1]
    ELSE texts[1] \o sep \o Join(sep, Tail(texts))

\* s[:n] for a list s and n >= 0
Take(s, n) == SubSeq(s, 1, IF n < Len(s) THEN n ELSE Len(s))

NoTruncation(s, n) == s

\* s[:n] for a list s and any integer n (a negative n counts from the end)
Slice(s, n) ==
    IF n >= 0 THEN Take(s, n)
    ELSE IF Len(s) + n > 0 THEN SubSeq(s, 1, Len(s) + n) ELSE <<>>

----------------------------------------------------------------------------
(* Paper and _parse_article_xml *)

AuthorCap == 5

Paper(title, authors, abstract, journal, year, pmid, pubmed_url) ==
    [title |-> title, authors |-> authors, abstract |-> abstract,
     journal |-> journal, year |-> year, pmid |-> pmid,
     pubmed_url |-> pubmed_url,
     relevance_score |-> "0.0", relevance_reason |-> ""]

\* elem.text if elem is not None else placeholder
TextOrDefault(node, placeholder) ==
    IF node /= NoNode THEN node ELSE placeholder

\* the truthiness test `if abstract_elem.text`
Truthy(text) == text /= None /\ text /= ""

\* lines 193-199: the name appended for one Author node (when LastName exists)
AuthorName(author) ==
    IF author.ForeName /= NoNode
    THEN Str(author.ForeName) \o " " \o Str(author.LastName)
    ELSE author.LastName

HasLastName(author) == author.LastName /= NoNode

\* lines 191-199
NoAuthorCap(author_nodes) == author_nodes

CappedAuthors(author_nodes) == Take(author_nodes, AuthorCap)

RECURSIVE AuthorNames(_)
AuthorNames(author_nodes) ==
    IF author_nodes = <<>> THEN <<>>
    ELSE IF HasLastName(Head(author_nodes))
         THEN <<AuthorName(Head(author_nodes))>> \o AuthorNames(Tail(author_nodes))
         ELSE AuthorNames(Tail(author_nodes))

ParseAuthors(elem) == AuthorNames(CappedAuthors(elem.Author))

ParseAbstract(elem) ==
    LET abstract_texts == SelectSeq(elem.AbstractText, Truthy)
    IN  IF abstract_texts /= <<>> THEN Join(" ", abstract_texts)
        ELSE "No abstract available"

PubmedUrl(pmid) == "https://pubmed.ncbi.nlm.nih.gov/" \o Str(pmid) \o "/"

\* _parse_article_xml: none of its statements can raise on an Element, so the
\* except branch (return None) is never taken
ParseArticleXml(elem) ==
    LET title == TextOrDefault(elem.ArticleTitle, "No title")
        year == TextOrDefault(elem.Year, "Unknown")
        journal == TextOrDefault(elem.JournalTitle, "Unknown journal")
        pmid == TextOrDefault(elem.PMID, "Unknown")
    IN  Paper(title, ParseAuthors(elem), ParseAbstract(elem), journal, year,
              pmid, PubmedUrl(pmid))

----------------------------------------------------------------------------
(* Article elements the parsing specification draws from *)

NodeTexts(text) == {NoNode, None, text}

LastNameAt(i) == "L" \o ToString(i)

\* the Author node at byline position i: a collective name (no LastName), a
\* LastName alone, or ForeName and LastName
AuthorNodesAt(i) ==
    { [LastName |-> NoNode, ForeName |-> NoNode],
      [LastName |-> LastNameAt(i), ForeName |-> NoNode],
      [LastName |-> LastNameAt(i), ForeName |-> "F"] }

RECURSIVE AuthorListsOfLen(_)
AuthorListsOfLen(n) ==
    IF n = 0 THEN { <<>> }
    ELSE { Append(a, node) : a \in AuthorListsOfLen(n - 1), node \in AuthorNodesAt(n) }

AuthorLists == UNION { AuthorListsOfLen(n) : n \in 0..MaxAuthors }

AbstractLists == { <<>>, <<None>>, <<"Background.", None, "Results.">> }

ArticleElems ==
    [ArticleTitle : NodeTexts("Sleep"), AbstractText : AbstractLists,
     Author : AuthorLists, Year : NodeTexts("2020"),
     JournalTitle : NodeTexts("Nature"), PMID : NodeTexts("111")]

----------------------------------------------------------------------------
(* Specification of the parser alone *)

InitParse ==
    /\ pc = "parse"
    /\ article_elem \in ArticleElems
    /\ paper = Unset
    /\ question = <<>> /\ max_papers = 0
    /\ translation = Unset /\ keywords = Unset
    /\ paper_ids = <<>> /\ fetched = <<>> /\ papers = <<>>
    /\ response = Unset /\ ranked_papers = <<>> /\ rank_failed = FALSE
    /\ result = Unset /\ calls = <<>> /\ writes = <<>>
    /\ ServerIdle

ParseArticle ==
    /\ pc = "parse"
    /\ paper' = ParseArticleXml(article_elem)
    /\ pc' = "parsed"
    /\ UNCHANGED <<article_elem, pipelineVars, serverVars>>

NextParse == ParseArticle

SpecParse == InitParse /\ [][NextParse]_vars

\* C8: every Paper produced by _parse_article_xml has a defined text in title,
\* abstract, journal, year, pmid and pubmed_url, and a field whose source node
\* is missing or has no text holds its placeholder.
C8_FieldsDefined ==
    pc = "parsed" =>
        /\ \A f \in {"title", "abstract", "journal", "year", "pmid", "pubmed_url"} :
               paper[f] /= None
        /\ article_elem.ArticleTitle \in {NoNode, None} => paper.title = "No title"
        /\ article_elem.Year \in {NoNode, None} => paper.year = "Unknown"
        /\ article_elem.JournalTitle \in {NoNode, None} =>
               paper.journal = "Unknown journal"
        /\ article_elem.PMID \in {NoNode, None} => paper.pmid = "Unknown"
        /\ SelectSeq(article_elem.AbstractText, Truthy) = <<>> =>
               paper.abstract = "No abstract available"

IsPrefix(s, t) == Len(s) <= Len(t) /\ SubSeq(t, 1, Len(s)) = s

\* C10: the authors of a parsed Paper are at most 5 and are the leading names
\* of the article's byline, in byline order, however many Author nodes the
\* article has.
C10_AuthorsCapped ==
    pc = "parsed" =>
        /\ Len(paper.authors) <= 5
        /\ IsPrefix(paper.authors, AuthorNames(article_elem.Author))

C10_Witness ==
    /\ pc = "parsed"
    /\ Len(article_elem.Author) > 5
    /\ \A i \in 1..Len(article_elem.Author) : HasLastName(article_elem.Author[i])
    /\ Len(paper.authors) = 5

----------------------------------------------------------------------------
(* _rank_papers_by_relevance *)

\* A relevance_score is the JSON value the model returned: a number, written
\* here as its decimal text, or a JSON string ("high"). A Paper's default is 0.0.
NumberTenths(score) ==
    CASE score = "0.0" -> 0
      [] score = "1.0" -> 10
      [] score = "3.0" -> 30
      [] score = "9.5" -> 95

IsNumber(score) == score \in {"0.0", "1.0", "3.0", "9.5"}

\* a < b on two sort keys that Python can compare
KeyLess(a, b) ==
    IF IsNumber(a) /\ IsNumber(b) THEN NumberTenths(a) < NumberTenths(b)
    ELSE FALSE      \* two equal strings

\* sorted() compares a str with a float: TypeError
SortRaises(ps) ==
    \E i, j \in 1..Len(ps) :
        IsNumber(ps[i].relevance_score) /\ ~IsNumber(ps[j].relevance_score)

RECURSIVE InsertBeforeEqual(_, _)
InsertBeforeEqual(sorted, p) ==
    IF sorted = <<>> THEN <<p>>
    ELSE IF ~KeyLess(p.relevance_score, Head(sorted).relevance_score)
         THEN <<p>> \o sorted
         ELSE <<Head(sorted)>> \o InsertBeforeEqual(Tail(sorted), p)

RECURSIVE InsertDesc(_, _)
\* p goes after every element whose key is not smaller than its own
InsertDesc(sorted, p) ==
    IF sorted = <<>> THEN <<p>>
    ELSE IF KeyLess(Head(sorted).relevance_score, p.relevance_score)
         THEN <<p>> \o sorted
         ELSE <<Head(sorted)>> \o InsertDesc(Tail(sorted), p)

RECURSIVE SortedDesc(_, _)
\* sorted(papers, key=lambda p: p.relevance_score, reverse=True): stable
SortedDesc(done, rest) ==
    IF rest = <<>> THEN done
    ELSE SortedDesc(InsertDesc(done, Head(rest)), Tail(rest))

NoLowerBound(paper_index, n) == paper_index < n

\* line 281: 0 <= paper_index < len(papers)
InRange(paper_index, n) == 0 <= paper_index /\ paper_index < n

\* papers[paper_index] as Python indexes a list (a negative index counts from
\* the end); 0 when it raises IndexError
ListPos(paper_index, n) ==
    LET pos == IF paper_index < 0 THEN n + paper_index + 1 ELSE paper_index + 1
    IN  IF pos \in 1..n THEN pos ELSE 0

\* lines 280-283 for one ranking object: the papers afterwards and whether the
\* statement raised (KeyError on a missing key)
\* (score_at, reason_at: the list position lines 282 and 283 assigned, 0 if
\* the line was not executed)
ApplyRanking(ps, ranking) ==
    IF "index" \notin DOMAIN ranking
    THEN [papers |-> ps, raised |-> TRUE, score_at |-> 0, reason_at |-> 0]
    ELSE IF ~InRange(ranking.index, Len(ps))
    THEN [papers |-> ps, raised |-> FALSE, score_at |-> 0, reason_at |-> 0]
    ELSE IF "relevance_score" \notin DOMAIN ranking \/ ListPos(ranking.index, Len(ps)) = 0
    THEN [papers |-> ps, raised |-> TRUE, score_at |-> 0, reason_at |-> 0]
    ELSE LET pos == ListPos(ranking.index, Len(ps))
             scored == [ps EXCEPT ![pos].relevance_score = ranking.relevance_score]
         IN  IF "reason" \notin DOMAIN ranking
             THEN [papers |-> scored, raised |-> TRUE, score_at |-> pos,
                   reason_at |-> 0]
             ELSE [papers |-> [scored EXCEPT ![pos].relevance_reason = ranking.reason],
                   raised |-> FALSE, score_at |-> pos, reason_at |-> pos]

NoWrites(n) == [i \in 1..n |-> [score |-> 0, reason |-> 0]]

\* the assignments of one ranking object added to the counts so far
CountWrites(counts, one) ==
    [i \in 1..Len(counts) |->
        [score |-> counts[i].score + (IF one.score_at = i THEN 1 ELSE 0),
         reason |-> counts[i].reason + (IF one.reason_at = i THEN 1 ELSE 0)]]

RECURSIVE ApplyLoop(_, _, _)
ApplyLoop(ps, rankings, counts) ==
    IF rankings = <<>> THEN [papers |-> ps, raised |-> FALSE, writes |-> counts]
    ELSE LET one == ApplyRanking(ps, Head(rankings))
             counted == CountWrites(counts, one)
         IN  IF one.raised
             THEN [papers |-> one.papers, raised |-> TRUE, writes |-> counted]
             ELSE ApplyLoop(one.papers, Tail(rankings), counted)

\* the loop of lines 279-283: it stops at the first ranking object that raises
ApplyRankings(ps, rankings) == ApplyLoop(ps, rankings, NoWrites(Len(ps)))

\* lines 267-292. resp is what the completion call produced: kind "error" (the
\* call raised), "no_content" (response.content is empty), "not_json"
\* (json.loads raised), "json_scalar" (JSON that is not iterable) or
\* "json_list" with its ranking objects. The result: the list `papers` after
\* the call, the returned list, and whether the except branch ran.
RankPapers(ps, resp) ==
    IF resp.kind /= "json_list"
    THEN [papers |-> ps, ranked_papers |-> ps, failed |-> TRUE,
          writes |-> NoWrites(Len(ps))]
    ELSE LET applied == ApplyRankings(ps, resp.rankings)
         IN  IF applied.raised \/ SortRaises(applied.papers)
             THEN [papers |-> applied.papers, ranked_papers |-> applied.papers,
                   failed |-> TRUE, writes |-> applied.writes]
             ELSE [papers |-> applied.papers,
                   ranked_papers |-> SortedDesc(<<>>, applied.papers),
                   failed |-> FALSE, writes |-> applied.writes]

----------------------------------------------------------------------------
(* Completion responses the ranking specification draws from *)

SampleArticle(i) ==
    [ArticleTitle |-> "Title " \o ToString(i), AbstractText |-> <<"Abstract.">>,
     Author |-> <<[LastName |-> LastNameAt(i), ForeName |-> "F"]>>,
     Year |-> "2020", JournalTitle |-> "Nature", PMID |-> ToString(i)]

\* the Literature Client's output for n distinct articles
SamplePapers(n) == [i \in 1..n |-> ParseArticleXml(SampleArticle(i))]

RankingIndexes == -1..MaxPapers

RankingObjects ==
    [index : RankingIndexes, relevance_score : {"3.0", "9.5", "high"}, reason : {"r"}]
    \cup [index : RankingIndexes, relevance_score : {"9.5"}]
    \cup [index : RankingIndexes, reason : {"r"}]
    \cup [relevance_score : {"9.5"}, reason : {"r"}]

RankingLists ==
    UNION { [1..n -> RankingObjects] : n \in 0..MaxRankings }

\* the spec's scenario: scores 3.0, 9.5, 1.0, 9.5 for papers A, B, C, D
ScenarioRankings ==
    << [index |-> 0, relevance_score |-> "3.0", reason |-> "r"],
       [index |-> 1, relevance_score |-> "9.5", reason |-> "r"],
       [index |-> 2, relevance_score |-> "1.0", reason |-> "r"],
       [index |-> 3, relevance_score |-> "9.5", reason |-> "r"] >>

FailedResponses ==
    { [kind |-> k, rankings |-> <<>>] :
        k \in {"error", "no_content", "not_json", "json_scalar"} }

RankResponses ==
    FailedResponses
    \cup { [kind |-> "json_list", rankings |-> r] :
             r \in RankingLists \cup {ScenarioRankings} }

----------------------------------------------------------------------------
(* Specification of the ranker alone *)

NeverSkip(ps) == FALSE

\* line 56: `if not papers`
NoPapers(ps) == ps = <<>>

InitRank ==
    /\ pc = "searched"
    /\ \E n \in 1..MaxPapers : fetched = SamplePapers(n)
    /\ papers = fetched
    /\ question = <<"q">> /\ max_papers = 0
    /\ translation = Unset /\ keywords = Unset /\ paper_ids = <<>>
    /\ response = Unset /\ ranked_papers = <<>> /\ rank_failed = FALSE
    /\ result = Unset /\ calls = <<>> /\ writes = <<>>
    /\ ServerIdle
    /\ article_elem = Unset /\ paper = Unset

\* one call of _rank_papers_by_relevance(question, papers)
RankPapersByRelevance(responses) ==
    /\ pc = "searched"
    /\ ~NoPapers(papers)
    /\ \E resp \in responses :
         LET r == RankPapers(papers, resp)
         IN  /\ response' = resp
             /\ papers' = r.papers
             /\ ranked_papers' = r.ranked_papers
             /\ rank_failed' = r.failed
             /\ writes' = r.writes
    /\ calls' = Append(calls, "rank")
    /\ pc' = "ranked"
    /\ UNCHANGED <<question, max_papers, translation, keywords, paper_ids,
                   fetched, result, parseVars, serverVars>>

NextRank == RankPapersByRelevance(RankResponses)

SpecRank == InitRank /\ [][NextRank]_vars

\* C2: whenever the ranking step fails (the call raises, the text is not valid
\* JSON, or applying the ranking objects or sorting raises), the ranker returns
\* the Literature Client's papers in their original order, every paper
\* unchanged (score 0.0, reason empty).
C2_TotalFallback ==
    (pc = "ranked" /\ rank_failed) => ranked_papers = fetched

\* position in the Literature Client's output of the j-th returned paper
InputPos(j) ==
    CHOOSE i \in 1..Len(fetched) : fetched[i].pmid = ranked_papers[j].pmid

\* C4: when the ranking step succeeds, the returned sequence is a permutation
\* of the input papers in descending relevance_score order, and papers of
\* equal score keep the relative order of the Literature Client's output.
C4_StableDescending ==
    (pc = "ranked" /\ ~rank_failed) =>
        /\ Len(ranked_papers) = Len(fetched)
        /\ \A j \in 1..Len(ranked_papers) :
               /\ \E i \in 1..Len(fetched) : fetched[i].pmid = ranked_papers[j].pmid
               /\ ranked_papers[j] = papers[InputPos(j)]
        /\ \A j, k \in 1..Len(ranked_papers) :
               j < k =>
                   /\ InputPos(j) /= InputPos(k)
                   /\ ~KeyLess(ranked_papers[j].relevance_score,
                               ranked_papers[k].relevance_score)
                   /\ ranked_papers[j].relevance_score = ranked_papers[k].relevance_score
                          => InputPos(j) < InputPos(k)

\* scores [3.0, 9.5, 1.0, 9.5] for A, B, C, D give [B, D, A, C]
C4_Witness ==
    /\ pc = "ranked" /\ ~rank_failed
    /\ response.rankings = ScenarioRankings
    /\ Len(fetched) = 4
    /\ [j \in 1..4 |-> ranked_papers[j].pmid] = <<"2", "4", "1", "3">>

OutOfRange(ranking, n) ==
    "index" \in DOMAIN ranking /\ (ranking.index < 0 \/ ranking.index >= n)

\* C7: a ranking object whose index is outside 0..len(papers)-1 is skipped: the
\* outcome of the ranking step (the papers' scores and reasons, the returned
\* order, whether the fallback ran) is the outcome of the same response without
\* its out-of-range objects, and a response of out-of-range objects only
\* changes no paper and does not fall back.
C7_OutOfRangeSkipped ==
    (pc = "ranked" /\ response.kind = "json_list") =>
        LET InBounds(ranking) == ~OutOfRange(ranking, Len(fetched))
            kept == SelectSeq(response.rankings, InBounds)
            r == RankPapers(fetched, [kind |-> "json_list", rankings |-> kept])
        IN  /\ papers = r.papers
            /\ ranked_papers = r.ranked_papers
            /\ rank_failed = r.failed
            /\ kept = <<>> =>
                   ~rank_failed /\ papers = fetched /\ ranked_papers = fetched

C7_Witness ==
    /\ pc = "ranked" /\ response.kind = "json_list" /\ ~rank_failed
    /\ Len(response.rankings) = 2
    /\ OutOfRange(response.rankings[1], Len(fetched))
    /\ response.rankings[1].index < 0
    /\ ~OutOfRange(response.rankings[2], Len(fetched))
    /\ papers /= fetched

----------------------------------------------------------------------------
(* _extract_keywords *)

Whitespace == {" ", "\t", "\n"}

RECURSIVE LStrip(_)
LStrip(text) ==
    IF text /= <<>> /\ Head(text) \in Whitespace THEN LStrip(Tail(text)) ELSE text

RECURSIVE RStrip(_)
RStrip(text) ==
    IF text /= <<>> /\ text[Len(text)] \in Whitespace
    THEN RStrip(SubSeq(text, 1, Len(text) - 1)) ELSE text

\* str.strip()
Strip(text) == RStrip(LStrip(text))

\* lines 87-100. tr is what the completion call produced: kind "error" (the
\* call raised: network, quota, auth), "no_content" (response.content is
\* empty, IndexError) or "text" with the text of the first content block.
ExtractKeywords(q, tr) ==
    IF tr.kind = "text" THEN Strip(tr.text) ELSE q

----------------------------------------------------------------------------
(* _get_paper_ids and _fetch_paper_details *)

\* lines 127-140. sr is the esearch outcome: kind "error" (transport error,
\* timeout, HTTP status, unparsable XML), "no_id_list" or "id_list" with the
\* .text of every Id element (None for an Id element without text)
GetPaperIds(sr) ==
    IF sr.kind = "id_list" THEN sr.ids ELSE <<>>

\* line 151: ','.join(paper_ids) raises TypeError on a None item
JoinRaises(ids) == \E i \in 1..Len(ids) : ids[i] = None

RECURSIVE ParseArticles(_)
\* lines 164-167. _parse_article_xml returns a Paper for every element (its
\* except branch is never taken) and a Paper is truthy, so the test of line
\* 166 keeps every article
ParseArticles(articles) ==
    IF articles = <<>> THEN <<>>
    ELSE <<ParseArticleXml(Head(articles))>> \o ParseArticles(Tail(articles))

\* lines 157-173. fr is the efetch outcome: kind "error" or "xml" with the
\* PubmedArticle nodes of the document
FetchPaperDetails(fr) ==
    IF fr.kind = "xml" THEN ParseArticles(fr.articles) ELSE <<>>

----------------------------------------------------------------------------
(* Inputs and external outcomes the pipeline specification draws from *)

Questions == { <<"q", "?">>, <<" ", "q", "?">> }

MaxPapersArgs == -1..MaxPapersArg

Translations ==
    { [kind |-> "error", text |-> <<>>], [kind |-> "no_content", text |-> <<>>] }
    \cup { [kind |-> "text", text |-> t] :
             t \in { <<>>, <<" ", "\n">>, <<" ", "k", " ", "k", "\n">> } }

IdLists == UNION { [1..n -> {None, "1"}] : n \in 0..MaxIds }

SearchResponses ==
    { [kind |-> "error", ids |-> <<>>], [kind |-> "no_id_list", ids |-> <<>>] }
    \cup { [kind |-> "id_list", ids |-> ids] : ids \in IdLists }

\* an article whose nodes are present but have no text
EmptyArticle ==
    [ArticleTitle |-> None, AbstractText |-> <<None>>, Author |-> <<>>,
     Year |-> None, JournalTitle |-> NoNode, PMID |-> None]

PipelineArticles == { SampleArticle(1), SampleArticle(2), EmptyArticle }

FetchResponses ==
    { [kind |-> "error", articles |-> <<>>] }
    \cup { [kind |-> "xml", articles |-> a] :
             a \in UNION { [1..n -> PipelineArticles] : n \in 0..MaxArticles } }

PipelineRankings ==
    { <<>>,
      << [index |-> 0, relevance_score |-> "3.0", reason |-> "r"],
         [index |-> 1, relevance_score |-> "9.5", reason |-> "r"] >>,
      << [index |-> 2, relevance_score |-> "9.5", reason |-> "r"] >>,
      << [index |-> 1, relevance_score |-> "9.5", reason |-> "r"],
         [index |-> 0, relevance_score |-> "3.0"] >>,
      << [index |-> -1, relevance_score |-> "9.5", reason |-> "r"] >>,
      << [index |-> 0, relevance_score |-> "high", reason |-> "r"] >>,
      ScenarioRankings }

PipelineResponses ==
    FailedResponses
    \cup { [kind |-> "json_list", rankings |-> r] : r \in PipelineRankings }

----------------------------------------------------------------------------
(* Specification of one run of process_research_question *)

Init ==
    /\ pc = "extract"
    /\ question \in Questions
    /\ max_papers \in MaxPapersArgs
    /\ translation = Unset /\ keywords = Unset
    /\ paper_ids = Unset /\ fetched = Unset /\ papers = Unset
    /\ response = Unset /\ ranked_papers = Unset /\ rank_failed = FALSE
    /\ result = Unset /\ calls = <<>> /\ writes = <<>>
    /\ ServerIdle
    /\ article_elem = Unset /\ paper = Unset

\* line 49
ExtractKeywordsStep ==
    /\ pc = "extract"
    /\ \E tr \in Translations :
         /\ translation' = tr
         /\ keywords' = ExtractKeywords(question, tr)
    /\ calls' = Append(calls, "translate")
    /\ pc' = "get_ids"
    /\ UNCHANGED <<question, max_papers, paper_ids, fetched, papers, response,
                   ranked_papers, rank_failed, result, writes, parseVars, serverVars>>

\* lines 106-108: the id lookup; with no ids _search_pubmed returns []
GetPaperIdsStep ==
    /\ pc = "get_ids"
    /\ \E sr \in SearchResponses :
         LET ids == GetPaperIds(sr)
         IN  /\ paper_ids' = ids
             /\ IF ids = <<>>
                THEN /\ papers' = <<>> /\ fetched' = <<>> /\ pc' = "searched"
                ELSE /\ UNCHANGED <<papers, fetched>> /\ pc' = "fetch"
    /\ calls' = Append(calls, "esearch")
    /\ UNCHANGED <<question, max_papers, translation, keywords, response,
                   ranked_papers, rank_failed, result, writes, parseVars, serverVars>>

\* line 111: the detail fetch. The join of line 151 is outside the try block:
\* its TypeError leaves _fetch_paper_details, _search_pubmed and
\* process_research_question, none of which catches it
FetchPaperDetailsStep ==
    /\ pc = "fetch"
    /\ IF JoinRaises(paper_ids)
       THEN /\ pc' = "raised"
            /\ UNCHANGED <<papers, fetched, calls>>
       ELSE /\ \E fr \in FetchResponses :
                 /\ papers' = FetchPaperDetails(fr)
                 /\ fetched' = papers'
            /\ calls' = Append(calls, "efetch")
            /\ pc' = "searched"
    /\ UNCHANGED <<question, max_papers, translation, keywords, paper_ids,
                   response, ranked_papers, rank_failed, result, writes, parseVars, serverVars>>

\* lines 56-57
ReturnEmpty ==
    /\ pc = "searched"
    /\ NoPapers(papers)
    /\ result' = <<>>
    /\ pc' = "done"
    /\ UNCHANGED <<question, max_papers, translation, keywords, paper_ids,
                   fetched, papers, response, ranked_papers, rank_failed,
                   calls, writes, parseVars, serverVars>>

\* line 63
ReturnTop ==
    /\ pc = "ranked"
    /\ result' = Slice(ranked_papers, max_papers)
    /\ pc' = "done"
    /\ UNCHANGED <<question, max_papers, translation, keywords, paper_ids,
                   fetched, papers, response, ranked_papers, rank_failed,
                   calls, writes, parseVars, serverVars>>

Next ==
    \/ ExtractKeywordsStep
    \/ GetPaperIdsStep
    \/ FetchPaperDetailsStep
    \/ ReturnEmpty
    \/ RankPapersByRelevance(PipelineResponses)
    \/ ReturnTop

Spec == Init /\ [][Next]_vars

\* C1 as stated: for every integer max_papers the returned sequence has at
\* most max_papers elements.
C1_LengthAtMostAnyMax ==
    pc = "done" => Len(result) <= max_papers

\* C1 amended: for every max_papers >= 0 and every outcome of the four
\* external calls, the returned sequence has at most max_papers elements.
C1_LengthAtMostMax ==
    (pc = "done" /\ max_papers >= 0) => Len(result) <= max_papers

C1_Witness ==
    /\ pc = "done"
    /\ max_papers = 1
    /\ "rank" \in {calls[i] : i \in 1..Len(calls)}
    /\ Len(ranked_papers) > max_papers
    /\ Len(result) = max_papers

\* C3: process_research_question never ends by raising, whatever the
\* completion service and the literature service answer.
C3_NeverRaises ==
    pc /= "raised"

\* C5: when the Literature Client returns zero papers the ranking completion
\* call is not issued in that run and the run returns the empty sequence.
C5_NoRankingWithoutPapers ==
    (pc \in {"searched", "ranked", "done"} /\ fetched = <<>>) =>
        /\ pc /= "ranked"
        /\ "rank" \notin {calls[i] : i \in 1..Len(calls)}
        /\ pc = "done" => result = <<>>

\* phase 1 failed or returned no ids
C5_Witness ==
    /\ pc = "done"
    /\ fetched = <<>>
    /\ result = <<>>
    /\ calls = <<"translate", "esearch">>

\* C6: when the translator's completion call fails (it raises, or its response
\* is malformed or empty) the query is the original question, and the query is
\* never empty.
C6_FallbackToQuestion ==
    pc \in {"get_ids", "fetch", "searched", "ranked", "done", "raised"} =>
        /\ (translation.kind /= "text" \/ Strip(translation.text) = <<>>)
               => keywords = question
        /\ keywords /= <<>>

\* C9: the returned sequence is never longer than the id list of phase 1.
C9_AtMostPhaseOneIds ==
    pc = "done" => Len(result) <= Len(paper_ids)

\* C11: in one ranking pass each paper's relevance_score and relevance_reason
\* are assigned at most once, whatever ranking objects the response holds, and
\* every Paper the Literature Client hands over has score 0.0 and no reason.
C11_WriteOnce ==
    pc = "ranked" =>
        /\ \A i \in 1..Len(writes) : writes[i].score <= 1 /\ writes[i].reason <= 1
        /\ \A i \in 1..Len(fetched) :
               fetched[i].relevance_score = "0.0" /\ fetched[i].relevance_reason = ""

CallOrder == <<"translate", "esearch", "efetch", "rank">>

\* C12: the external calls of a run are an initial part of the order
\* translator completion, id lookup, detail fetch, ranking completion, each at
\* most once; the detail fetch is issued only after an id lookup that returned
\* an id, the ranking completion only after a detail fetch that yielded a paper.
C12_CallOrder ==
    /\ IsPrefix(calls, CallOrder)
    /\ "efetch" \in {calls[i] : i \in 1..Len(calls)} => Len(paper_ids) >= 1
    /\ "rank" \in {calls[i] : i \in 1..Len(calls)} => Len(fetched) >= 1

C12_Witness ==
    /\ pc = "done"
    /\ calls = CallOrder
    /\ Len(result) >= 1

----------------------------------------------------------------------------
(* src/api.py: the rate limiter *)

DefaultMaxRequests == 30
DefaultWindow == 60

LimitOffByOne(n, max_requests) == n > max_requests

\* line 94: len(rate_limit_store[client_ip]) >= max_requests
LimitExceeded(n, max_requests) == n >= max_requests

\* lines 88-91: the timestamps still inside the window
RecentRequests(log, current_time, window) ==
    LET Recent(req_time) == current_time - req_time < window
    IN  SelectSeq(log, Recent)

\* check_rate_limit_by_ip(client_ip, max_requests, window) when time.time()
\* returns current_time: the verdict and rate_limit_store afterwards. The
\* function has no await: it runs to its end on the event loop thread.
CheckRateLimitByIp(store, client_ip, current_time, max_requests, window) ==
    LET kept == RecentRequests(store[client_ip], current_time, window)
    IN  IF LimitExceeded(Len(kept), max_requests)
        THEN [ok |-> FALSE, store |-> [store EXCEPT ![client_ip] = kept]]
        ELSE [ok |-> TRUE,
              store |-> [store EXCEPT ![client_ip] = Append(kept, current_time)]]

----------------------------------------------------------------------------
(* src/api.py: user limits and usage *)

DailySearchesFree == 5
DailySearchesPremium == 50
DailySearchesPro == 200
MaxQuestionLen == 500

\* lines 139-153: daily_searches of a subscription tier
DailySearches(subscription_tier) ==
    CASE subscription_tier = "premium" -> DailySearchesPremium
      [] subscription_tier = "pro" -> DailySearchesPro
      [] OTHER -> DailySearchesFree

\* get_user_limits. sub is the user_subscriptions read: ok (FALSE: execute()
\* raised) and the row's tier ("none": no row). used is the user_usage read: ok
\* and the row's searches_count (0: no row). Any exception gives the defaults
\* of lines 173-178.
GetUserLimits(sub, used) ==
    IF ~sub.ok \/ ~used.ok
    THEN [daily_searches |-> DailySearchesFree, searches_used_today |-> 0,
          subscription_tier |-> "free"]
    ELSE LET subscription_tier == IF sub.tier = "none" THEN "free" ELSE sub.tier
         IN  [daily_searches |-> DailySearches(subscription_tier),
              searches_used_today |-> used.count,
              subscription_tier |-> subscription_tier]

\* line 236
DailyLimitReached(user_limits) ==
    user_limits.searches_used_today >= user_limits.daily_searches

\* validate_research_query
ValidQuery(q) == Strip(q) /= <<>> /\ Len(q) <= MaxQuestionLen

\* increment_user_usage: the searches_count afterwards. existing is the read of
\* line 190 (ok, count), written whether the update or insert succeeded; any
\* exception is swallowed at line 204.
IncrementUserUsage(count, existing, written) ==
    IF ~existing.ok \/ ~written THEN count
    ELSE IF existing.count > 0 THEN existing.count + 1 ELSE 1

----------------------------------------------------------------------------
(* src/api.py: /search handlers on the service's event loop *)

NumRequests == 6      \* /search requests of one user on one day

Requests == 1..NumRequests

ClientIp == "10.0.0.1"

NoLimits == [daily_searches |-> 0, searches_used_today |-> 0, subscription_tier |-> ""]

\* positions of a handler at which it is inside an external call of the core
CoreCalls == {"translate", "esearch", "efetch", "rank"}

\* Whether a handler blocked at this position has given the event loop thread
\* back. messages.create (lines 88, 268 of research_assistant.py), requests.get
\* (lines 128, 158) and the supabase calls are synchronous calls, and the awaits
\* of api.py line 247 and research_assistant.py lines 49 and 60 run coroutines
\* that never await a pending future: the thread is never given back.
Suspends(position) == FALSE

\* positions the core can be at after the call at `position` returned
\* ("raised": the TypeError of line 151 left process_research_question)
AfterCall(position) ==
    CASE position = "translate" -> {"esearch"}
      [] position = "esearch" -> {"efetch", "increment", "raised"}
      [] position = "efetch" -> {"rank", "increment"}
      [] position = "rank" -> {"increment"}

ReadOutcomes(count) == { [ok |-> FALSE, count |-> 0], [ok |-> TRUE, count |-> count] }

SubscriptionOutcomes == { [ok |-> FALSE, tier |-> "none"], [ok |-> TRUE, tier |-> tier] }

ServeQuestions == Questions \cup { <<" ">> }

InitServe ==
    /\ loop = 0
    /\ req = [r \in Requests |-> "pending"]
    /\ limits = [r \in Requests |-> NoLimits]
    /\ usage = 0
    /\ tier \in {"none", "free", "premium", "pro"}
    /\ allowed = 0
    /\ rate_limit_store = [ip \in {ClientIp} |-> <<>>]
    /\ now = 0
    /\ accepted = [ip \in {ClientIp} |-> <<>>]
    /\ pc = "serve"
    /\ question = <<>> /\ max_papers = 0
    /\ translation = Unset /\ keywords = Unset
    /\ paper_ids = <<>> /\ fetched = <<>> /\ papers = <<>>
    /\ response = Unset /\ ranked_papers = <<>> /\ rank_failed = FALSE
    /\ result = Unset /\ calls = <<>> /\ writes = <<>>
    /\ article_elem = Unset /\ paper = Unset

\* A request is dispatched: verify_user_and_check_limits (lines 101-126), then
\* search_papers up to the first external call of the core (lines 228-247).
\* A rejected request (401, 429, 403, 400) ends here.
Admit(r) ==
    /\ req[r] = "pending"
    /\ loop = 0
    /\ \E authenticated \in BOOLEAN, sub \in SubscriptionOutcomes,
          used \in ReadOutcomes(usage), q \in ServeQuestions :
         LET user_limits == GetUserLimits(sub, used)
             checked == CheckRateLimitByIp(rate_limit_store, ClientIp, now,
                                           DefaultMaxRequests, DefaultWindow)
         IN  IF ~authenticated
             THEN /\ req' = [req EXCEPT ![r] = "done"]
                  /\ UNCHANGED <<loop, limits, allowed, rate_limit_store, accepted>>
             ELSE /\ rate_limit_store' = checked.store
                  /\ accepted' = IF checked.ok
                                 THEN [accepted EXCEPT ![ClientIp] = Append(@, now)]
                                 ELSE accepted
                  /\ IF ~checked.ok \/ DailyLimitReached(user_limits) \/ ~ValidQuery(q)
                     THEN /\ req' = [req EXCEPT ![r] = "done"]
                          /\ UNCHANGED <<loop, limits, allowed>>
                     ELSE /\ req' = [req EXCEPT ![r] = "translate"]
                          /\ limits' = [limits EXCEPT ![r] = user_limits]
                          /\ allowed' = allowed + 1
                          /\ loop' = IF Suspends("translate") THEN 0 ELSE r
    /\ UNCHANGED <<usage, tier, now, pc, pipelineVars, parseVars>>

\* The external call a handler is blocked in returns and the core runs on to
\* its next external call, to increment_user_usage (api.py line 253), or out
\* of the handler with the exception (line 272: no usage is counted).
CallReturns(r) ==
    /\ req[r] \in CoreCalls
    /\ loop = r \/ (loop = 0 /\ Suspends(req[r]))
    /\ \E next \in AfterCall(req[r]) :
         IF next = "raised"
         THEN /\ req' = [req EXCEPT ![r] = "done"]
              /\ limits' = [limits EXCEPT ![r] = NoLimits]
              /\ loop' = 0
         ELSE /\ req' = [req EXCEPT ![r] = next]
              /\ loop' = IF Suspends(next) THEN 0 ELSE r
              /\ UNCHANGED limits
    /\ UNCHANGED <<usage, tier, allowed, rate_limit_store, now, accepted, pc,
                   pipelineVars, parseVars>>

\* increment_user_usage (lines 181-205) and the response (lines 255-270)
IncrementUsage(r) ==
    /\ req[r] = "increment"
    /\ loop = r \/ (loop = 0 /\ Suspends(req[r]))
    /\ \E existing \in ReadOutcomes(usage), written \in BOOLEAN :
         usage' = IncrementUserUsage(usage, existing, written)
    /\ req' = [req EXCEPT ![r] = "done"]
    /\ limits' = [limits EXCEPT ![r] = NoLimits]
    /\ loop' = 0
    /\ UNCHANGED <<tier, allowed, rate_limit_store, now, accepted, pc,
                   pipelineVars, parseVars>>

HandlerStep(r) == Admit(r) \/ CallReturns(r) \/ IncrementUsage(r)

NextServe ==
    \/ \E r \in Requests : Admit(r)
    \/ \E r \in Requests : CallReturns(r)
    \/ \E r \in Requests : IncrementUsage(r)

SpecServe == InitServe /\ [][NextServe]_vars

\* C13: while one /search request is waiting on an external call of the core,
\* every other unfinished request can take a step of its own handler.
C13_SlowCallDoesNotStall ==
    \A r, other \in Requests :
        (r /= other /\ req[r] \in CoreCalls /\ req[other] /= "done")
            => ENABLED HandlerStep(other)

\* C15: the requests let through to process_research_question on one day never
\* exceed the user's daily_searches (5 free, 50 premium, 200 pro).
C15_DailyLimitHolds ==
    pc = "serve" => allowed <= DailySearches(IF tier = "none" THEN "free" ELSE tier)

----------------------------------------------------------------------------
(* Specification of the rate limiter alone: calls of check_rate_limit_by_ip    *)
(* from the handlers of concurrent requests, in any order, as time passes.     *)
(* The arguments max_requests and window are RateLimit and RateWindow here.    *)

RateLimit == 3        \* the max_requests argument
RateWindow == 2       \* the window argument, in clock ticks
MaxTime == 4          \* last clock reading

ClientIps == { ClientIp, "10.0.0.2" }

InitRate ==
    /\ pc = "rate"
    /\ rate_limit_store = [ip \in ClientIps |-> <<>>]
    /\ accepted = [ip \in ClientIps |-> <<>>]
    /\ now = 0
    /\ loop = 0 /\ req = <<>> /\ limits = <<>>
    /\ usage = 0 /\ tier = "free" /\ allowed = 0
    /\ question = <<>> /\ max_papers = 0
    /\ translation = Unset /\ keywords = Unset
    /\ paper_ids = <<>> /\ fetched = <<>> /\ papers = <<>>
    /\ response = Unset /\ ranked_papers = <<>> /\ rank_failed = FALSE
    /\ result = Unset /\ calls = <<>> /\ writes = <<>>
    /\ article_elem = Unset /\ paper = Unset

\* line 232: one request's call of check_rate_limit_by_ip(client_ip)
CheckRateLimit(client_ip) ==
    /\ pc = "rate"
    /\ LET checked == CheckRateLimitByIp(rate_limit_store, client_ip, now,
                                         RateLimit, RateWindow)
       IN  /\ rate_limit_store' = checked.store
           /\ accepted' = IF checked.ok
                          THEN [accepted EXCEPT ![client_ip] = Append(@, now)]
                          ELSE accepted
    /\ UNCHANGED <<now, loop, req, limits, usage, tier, allowed, pc,
                   pipelineVars, parseVars>>

\* time.time() moves on
Tick ==
    /\ pc = "rate"
    /\ now < MaxTime
    /\ now' = now + 1
    /\ UNCHANGED <<rate_limit_store, accepted, loop, req, limits, usage, tier,
                   allowed, pc, pipelineVars, parseVars>>

NextRate ==
    \/ \E client_ip \in ClientIps : CheckRateLimit(client_ip)
    \/ Tick

SpecRate == InitRate /\ [][NextRate]_vars

\* accepted requests of client_ip with a timestamp in [from, from + RateWindow)
AcceptedInWindow(client_ip, from) ==
    Cardinality({ i \in 1..Len(accepted[client_ip]) :
                    /\ from <= accepted[client_ip][i]
                    /\ accepted[client_ip][i] < from + RateWindow })

\* C14: for every client address, in any order of the concurrent requests'
\* calls, at most max_requests accepted requests have timestamps inside any one
\* window, the address's log never holds more than max_requests entries, and a
\* step that accepts nothing adds no entry to any log.
C14_RateLimitHolds ==
    /\ [](pc = "rate" =>
            \A client_ip \in ClientIps :
                /\ Len(rate_limit_store[client_ip]) <= RateLimit
                /\ \A from \in 0..MaxTime :
                       AcceptedInWindow(client_ip, from) <= RateLimit)
    /\ [][pc = "rate" =>
            \A client_ip \in ClientIps :
                accepted'[client_ip] = accepted[client_ip] =>
                    Len(rate_limit_store'[client_ip])
                        <= Len(rate_limit_store[client_ip])]_vars

\* the window has slid: more requests accepted over time than one window holds
C14_Witness ==
    /\ pc = "rate"
    /\ Len(accepted[ClientIp]) > RateLimit
    /\ Len(rate_limit_store[ClientIp]) = RateLimit
    /\ AcceptedInWindow(ClientIp, now - RateWindow + 1) = RateLimit

====
